---- MODULE Spec2Model ----
(***************************************************************************)
(* A model of optimum-nvidia's TensorRTEngineBuilder                       *)
(* (src/optimum/nvidia/builder/base.py) and of the pipeline factory        *)
(* (src/optimum/nvidia/pipelines/__init__.py).                             *)
(*                                                                         *)
(* Every method of the builder is a function from the builder's fields     *)
(* (and the filesystem under output_path) to the fields after the call,    *)
(* the exception it raised, the value it returned and the effects it had   *)
(* on its collaborators, in order.  One action per public call applies     *)
(* the function to the current state.                                      *)
(***************************************************************************)
EXTENDS Integers, Sequences, FiniteSets, TLC

VARIABLES
    self,      \* the fields of one TensorRTEngineBuilder
    fs,        \* the filesystem under output_path
    float8,    \* what has_float8_support() reports on this machine
    call       \* the last call made: its arguments, outcome and effects

vars == <<self, fs, float8, call>>

----------------------------------------------------------------------------
(* Bounds of the model. *)

\* config["max_position_embeddings"] of the model being built
MaxPositionEmbeddings == 3
\* largest world_size passed to shard
MaxWorldSize == 2

----------------------------------------------------------------------------
(* Python values. *)

\* Optional[T]: None is the empty tuple, a value v is <<v>>.
None == <<>>
Some(v) == <<v>>

\* A QuantMode is a set of flags (an IntFlag); QuantMode(0) is the empty set.
Flags == {"INT8_WEIGHTS", "FP8_QDQ", "FP8_KV_CACHE"}
QuantMode(flags) == [kind |-> "QuantMode", mode |-> flags]
NoQConfig == [kind |-> "None", mode |-> {}]
\* the 2-tuple validate() stores when no quantization was configured
DefaultQConfig == [kind |-> "tuple", mode |-> {}]

has_fp8_qdq(mode) == "FP8_QDQ" \in mode
has_fp8_kv_cache(mode) == "FP8_KV_CACHE" \in mode

\* bool(self._qconfig): None and QuantMode(0) are false, a non-empty tuple is true
Truthy(q) ==
    \/ q.kind = "tuple"
    \/ q.kind = "QuantMode" /\ q.mode # {}

\* bool(self._quantization_calibration): None is false, and so is a
\* calibration that is set but empty
EmptyCalibration == ""
TruthyCalibration(calibration) ==
    calibration # None /\ calibration[1] # EmptyCalibration

\* the model configuration the builder was constructed with
ModelType == "llama"
TorchDtype == "float16"
DTypes == {"float16", "bfloat16"}
OutputPath == "out"
CalibrationPath == "out/calibration"

BuildInfo(parallel, num_parallel_jobs, quantized_path) ==
    [parallel |-> parallel, num_parallel_jobs |-> num_parallel_jobs,
     quantized_path |-> quantized_path]
SERIAL_BUILD == BuildInfo(FALSE, 1, None)

OptimizationProfile(max_batch_size, max_prompt_length, max_new_tokens, max_output_length) ==
    [max_batch_size |-> max_batch_size,
     max_prompt_length |-> max_prompt_length,
     max_new_tokens |-> max_new_tokens,
     max_output_length |-> max_output_length]

ShardingInfo(tp_degree, pp_degree, world_size, num_gpus_per_node) ==
    [tp_degree |-> tp_degree, pp_degree |-> pp_degree,
     world_size |-> world_size, num_gpus_per_node |-> num_gpus_per_node]
NO_SHARDING == ShardingInfo(1, 1, 1, 1)

\* TensorRTEngineBuilder.__init__
NewBuilder ==
    [_dtype |-> TorchDtype,
     _build_info |-> SERIAL_BUILD,
     _sharding_info |-> NO_SHARDING,
     _optimization_profile |-> None,
     _qconfig |-> NoQConfig,
     _quantization_calibration |-> None,
     _beam_width |-> -1]

----------------------------------------------------------------------------
(* Outcomes.  Every method returns the builder and filesystem it leaves,   *)
(* the exception raised ("none" when it returned), what the error names,   *)
(* the value returned, whether validate() logged its truncation warning,   *)
(* and its effects in order.                                               *)

Outcome(s, f, raised, names, ret, warned, effects) ==
    [self |-> s, fs |-> f, raised |-> raised, names |-> names, ret |-> ret,
     warned |-> warned, effects |-> effects]

Returns(s, f, ret, effects) == Outcome(s, f, "none", "", ret, FALSE, effects)
Raises(s, f, exc, names, effects) == Outcome(s, f, exc, names, "", FALSE, effects)

\* one effect on a collaborator or on the filesystem
Effect(ev, rank, file) == [ev |-> ev, rank |-> rank, file |-> file]

----------------------------------------------------------------------------
(* The configuration calls. *)

\* BuildInfo(True, num_jobs): the named tuple has three fields and no
\* defaults, so the constructor raises before self._build_info is assigned.
enable_parallel_build(s, f, num_jobs) ==
    Raises(s, f, "TypeError", "quantized_path", <<>>)

to(s, f, dtype) ==
    IF dtype # s._dtype
    THEN Returns([s EXCEPT !._dtype = dtype], f, "self", <<>>)
    ELSE Returns(s, f, "self", <<>>)

shard(s, f, tp_degree, pp_degree, world_size, num_gpus_per_node) ==
    Returns([s EXCEPT !._sharding_info =
                 ShardingInfo(tp_degree, pp_degree, world_size, num_gpus_per_node)],
            f, "self", <<>>)

\* the guard of with_quantization_profile: an fp8 mode on hardware without it
Float8Missing_NoKvCache(mode) == has_fp8_qdq(mode) /\ ~float8
Float8Missing(mode) ==
    (has_fp8_qdq(mode) \/ has_fp8_kv_cache(mode)) /\ ~float8

with_quantization_profile(s, f, mode, calibration) ==
    IF Float8Missing(mode)
    THEN Raises(s, f, "UnsupportedHardwareFeature", "float8", <<>>)
    ELSE Returns([s EXCEPT !._qconfig = QuantMode(mode),
                           !._quantization_calibration = calibration],
                 f, "self", <<>>)

\* max_output_length as with_generation_profile defaults it
DefaultOutputLength_Unset(max_prompt_length, max_new_tokens, max_output_length) ==
    max_output_length
DefaultOutputLength(max_prompt_length, max_new_tokens, max_output_length) ==
    IF /\ max_output_length = None
       /\ max_prompt_length # None
       /\ max_new_tokens # None
    THEN Some(max_prompt_length[1] + max_new_tokens[1])
    ELSE max_output_length

with_generation_profile(s, f, max_batch_size, max_prompt_length, max_new_tokens, max_output_length) ==
    Returns([s EXCEPT !._optimization_profile =
                 Some(OptimizationProfile(
                          max_batch_size, max_prompt_length, max_new_tokens,
                          DefaultOutputLength(max_prompt_length, max_new_tokens,
                                              max_output_length)))],
            f, "self", <<>>)

with_sampling_strategy(s, f, num_beams) ==
    Returns([s EXCEPT !._beam_width = num_beams], f, "self", <<>>)

----------------------------------------------------------------------------
(* validate *)

\* the (min_value, max_value) table validate() loops over, in its order
ProfileBounds(p, max_sequence_length) ==
    << [prop |-> "max_batch_size", value |-> Some(p.max_batch_size),
        min |-> 1, max |-> None],
       [prop |-> "max_prompt_length", value |-> p.max_prompt_length,
        min |-> 1, max |-> Some(max_sequence_length - 1)],
       [prop |-> "max_new_tokens", value |-> p.max_new_tokens,
        min |-> 1, max |-> Some(max_sequence_length - 1)],
       [prop |-> "max_output_length", value |-> p.max_output_length,
        min |-> p.max_prompt_length[1] + p.max_new_tokens[1],
        max |-> Some(max_sequence_length)] >>

\* prop_value < min_value, prop_value > max_value: None is not comparable
NotComparable(b) == b.value = None
BelowMin(b) == b.value # None /\ b.value[1] < b.min
AboveMax(b) == b.value # None /\ b.max # None /\ b.value[1] > b.max[1]

\* the indices of the table's entries at which the loop raises
Faults(bounds) ==
    {i \in 1..Len(bounds) :
        NotComparable(bounds[i]) \/ BelowMin(bounds[i]) \/ AboveMax(bounds[i])}

Min(S) == CHOOSE x \in S : \A y \in S : x <= y

validate(s, f) ==
    LET s1 == IF s._qconfig.kind = "None"
              THEN [s EXCEPT !._qconfig = DefaultQConfig]
              ELSE s
        s2 == IF s1._beam_width < 1 THEN [s1 EXCEPT !._beam_width = 1] ELSE s1
    IN
    IF s1._optimization_profile = None
    THEN Raises(s1, f, "ValueError", "optimization_profile", <<>>)
    ELSE
      LET p == s1._optimization_profile[1]
          max_sequence_length == MaxPositionEmbeddings
      IN
      \* max_prompt_length + max_new_tokens is added while the table is built
      IF p.max_prompt_length = None \/ p.max_new_tokens = None
      THEN Raises(s1, f, "TypeError", "NoneType", <<>>)
      ELSE
        LET bounds == ProfileBounds(p, max_sequence_length)
            bad == Faults(bounds)
        IN
        IF bad # {}
        THEN IF NotComparable(bounds[Min(bad)])
             THEN Raises(s1, f, "TypeError", "NoneType", <<>>)
             ELSE Raises(s1, f, "ValueError", bounds[Min(bad)].prop, <<>>)
        ELSE
          \* new_max_new_tokens is computed and logged, never stored
          Outcome(s2, f, "none", "", "True",
                  p.max_prompt_length[1] + p.max_new_tokens[1] > max_sequence_length,
                  <<>>)

----------------------------------------------------------------------------
(* quantize *)

\* a name os.listdir returns, as its stem and its extension
FileName(stem, ext) == <<stem, ext>>
endswith(name, ext) == name[2] = ext

\* what AmmoQuantizer.save leaves in the calibration directory
SavedCalibration ==
    {FileName("config", ".json"), FileName("rank0", ".safetensors")}

\* quantizer.save(calibration_path): creates the directory when it is absent
\* and writes its two files beside whatever the directory held
AmmoQuantizer_save(f) ==
    [f EXCEPT !.exists = TRUE,
              !.calibration =
                  Some((IF f.calibration = None THEN {} ELSE f.calibration[1])
                       \cup SavedCalibration)]

\* has_json and has_qweight: the directory exists and lists two entries,
\* one ending in .json and one in .safetensors
ReusableCalibration_AnyCount(calibration_path) ==
    /\ calibration_path # None
    /\ \E x \in calibration_path[1] : endswith(x, ".json")
    /\ \E x \in calibration_path[1] : endswith(x, ".safetensors")
ReusableCalibration_WrongExtension(calibration_path) ==
    /\ calibration_path # None
    /\ Cardinality(calibration_path[1]) = 2
    /\ \E x \in calibration_path[1] : endswith(x, ".json")
    /\ \E x \in calibration_path[1] : endswith(x, ".bin")
ReusableCalibration(calibration_path) ==
    /\ calibration_path # None
    /\ Cardinality(calibration_path[1]) = 2
    /\ \E x \in calibration_path[1] : endswith(x, ".json")
    /\ \E x \in calibration_path[1] : endswith(x, ".safetensors")

quantize(s, f) ==
    LET calibration_path == f.calibration
        recompute == calibration_path = None \/ ~ReusableCalibration(calibration_path)
        calibrated == AmmoQuantizer_save(f)
        stored == [s EXCEPT !._build_info =
                       BuildInfo(s._build_info.parallel,
                                 s._build_info.num_parallel_jobs,
                                 Some(CalibrationPath))]
        entered == <<Effect("quantize", -1, "")>>
    IN
    IF TruthyCalibration(s._quantization_calibration)
    THEN IF recompute
         THEN Returns(stored, calibrated, "None",
                      entered \o
                      << Effect("from_pretrained", -1, ""),
                         Effect("calibrate", -1, ""),
                         Effect("save", -1, CalibrationPath) >>)
         ELSE Returns(stored, f, "None",
                      entered \o <<Effect("reuse", -1, CalibrationPath)>>)
    ELSE Returns(stored, f, "None", entered)

----------------------------------------------------------------------------
(* build *)

create_unique_engine_name_NoRank(identifier, dtype, rank, tp_degree) ==
    identifier \o "_" \o dtype \o "_tp" \o ToString(tp_degree) \o ".engine"
create_unique_engine_name(identifier, dtype, rank, tp_degree) ==
    identifier \o "_" \o dtype \o "_tp" \o ToString(tp_degree)
        \o "_rank" \o ToString(rank) \o ".engine"

\* Shard(world_size, rank, num_gpus_per_node, tp_degree, pp_degree)
Shard(sharding, rank) ==
    [world_size |-> sharding.world_size, rank |-> rank,
     gpus_per_node |-> sharding.num_gpus_per_node,
     tp_size |-> sharding.tp_degree, pp_size |-> sharding.pp_degree]

\* shards_info: one Shard per rank in range(world_size)
ShardsInfo(sharding) ==
    [i \in 1..sharding.world_size |-> Shard(sharding, i - 1)]

\* where _build_engine_for_rank loads the weights from
LoadsCheckpoint(s, fp8) == fp8 /\ s._build_info.quantized_path # None

\* `built` is the set of ranks for which Builder.build_engine returns an
\* engine; for the others it returns None.
_build_engine_for_rank(s, f, shard_, built, is_parallel) ==
    LET ranked_engine_name ==
            create_unique_engine_name(ModelType, s._dtype, shard_.rank,
                                      shard_.tp_size)
    IN
    \* create_builder_config calls qconfig.has_fp8_qdq()
    IF s._qconfig.kind # "QuantMode"
    THEN Raises(s, f, "AttributeError", "has_fp8_qdq", <<>>)
    ELSE
      LET fp8 == has_fp8_qdq(s._qconfig.mode)
          load == IF LoadsCheckpoint(s, fp8)
                  THEN Effect("from_checkpoint", shard_.rank,
                              s._build_info.quantized_path[1])
                  ELSE Effect("from_hugging_face", shard_.rank, "")
          engine == Effect("build_engine", shard_.rank, "")
          metadata == IF shard_.rank = 0
                      THEN << Effect("save_hf_config", shard_.rank, "config.json"),
                              Effect("save_timing_cache", shard_.rank, "timings"),
                              Effect("save_config", shard_.rank, "build.json") >>
                      ELSE <<>>
      IN
      IF shard_.rank \notin built
      THEN Raises(s, f, "RuntimeError", "TRT Engine build failed",
                  <<load, engine>> \o metadata)
      ELSE Returns(s, [f EXCEPT !.engines = @ \cup {ranked_engine_name}], "None",
                   <<load, engine>> \o metadata
                   \o <<Effect("_serialize_engine", shard_.rank,
                               ranked_engine_name)>>)

\* the shards from index i on, one after the other, until one raises
RECURSIVE BuildFrom(_, _, _, _, _, _)
BuildFrom(s, f, shards_info, i, built, effects) ==
    IF i > Len(shards_info)
    THEN Returns(s, f, "None", effects)
    ELSE LET r == _build_engine_for_rank(s, f, shards_info[i], built, FALSE)
         IN IF r.raised # "none"
            THEN Raises(r.self, r.fs, r.raised, r.names, effects \o r.effects)
            ELSE BuildFrom(r.self, r.fs, shards_info, i + 1, built,
                           effects \o r.effects)

_build_serial(s, f, shards_info, built) ==
    BuildFrom(s, f, shards_info, 1, built, <<>>)

\* `affinity` is what sched_getaffinity(0) returns: a set of CPU ids, which
\* does not compare with len(shard_info).  A job count above the number of
\* shards is replaced by the list of shards, which Pool rejects; otherwise
\* Pool.map is given keyword arguments it does not take.
_build_parallel(s, f, shards_info, built, affinity) ==
    LET num_parallel_jobs == s._build_info.num_parallel_jobs IN
    IF ~(num_parallel_jobs > 1)
    THEN Raises(s, f, "TypeError", "sched_getaffinity", <<>>)
    ELSE IF num_parallel_jobs > Len(shards_info)
    THEN Raises(s, f, "TypeError", "Pool", <<>>)
    ELSE Raises(s, f, "TypeError", "map",
                <<Effect("Pool", num_parallel_jobs, "")>>)

\* build_func: the parallel path needs parallel and more than one job
DispatchesParallel(s) ==
    s._build_info.parallel /\ s._build_info.num_parallel_jobs > 1

build(s, f, built, affinity) ==
    LET sharding == s._sharding_info
        shards_info == ShardsInfo(sharding)
        made == IF f.exists THEN <<>> ELSE <<Effect("mkdir", -1, OutputPath)>>
        f1 == [f EXCEPT !.exists = TRUE]
        q == IF Truthy(s._qconfig) THEN quantize(s, f1)
             ELSE Returns(s, f1, "None", <<>>)
        v == validate(q.self, q.fs)
    IN
    IF v.raised # "none"
    THEN Outcome(v.self, v.fs, v.raised, v.names, "", v.warned, made \o q.effects)
    ELSE
      LET b == IF DispatchesParallel(v.self)
               THEN _build_parallel(v.self, v.fs, shards_info, built, affinity)
               ELSE _build_serial(v.self, v.fs, shards_info, built)
      IN
      IF b.raised # "none"
      THEN Outcome(b.self, b.fs, b.raised, b.names, "", v.warned,
                   made \o q.effects \o b.effects)
      ELSE Outcome(b.self, b.fs, "none", "", OutputPath, v.warned,
                   made \o q.effects \o b.effects)

----------------------------------------------------------------------------
(* The pipeline factory. *)

\* model type -> task -> (pipeline implementation, model loader)
SUPPORTED_MODEL_WITH_TASKS ==
    [m \in {"llama"} |->
        [t \in {"text-generation"} |->
            <<"TextGenerationPipeline", "AutoModelForCausalLM">>]]

PipelineOutcome(raised, names, listed, ret, effects) ==
    [raised |-> raised, names |-> names, listed |-> listed, ret |-> ret,
     effects |-> effects]

\* dict.get(key, None)
Get(dict, key) == IF key \in DOMAIN dict THEN Some(dict[key]) ELSE None

\* The first lookup uses the task as the key of the model-type table and the
\* guard tests the argument, not the entry found.
get_target_class_for_model_and_task(task, architecture) ==
    LET task_ == Get(SUPPORTED_MODEL_WITH_TASKS, task) IN
    IF task = ""
    THEN PipelineOutcome("NotImplementedError", task, {}, "", <<>>)
    ELSE IF task_ = None
    THEN PipelineOutcome("AttributeError", "get", {}, "", <<>>)
    ELSE IF Get(task_[1], architecture) = None
    THEN PipelineOutcome("NotImplementedError", architecture,
                         DOMAIN task_[1], "", <<>>)
    ELSE PipelineOutcome("none", "", {}, task_[1][architecture], <<>>)

\* `model_type` is config.model_type of the checkpoint at model_or_path;
\* `tokenizer` is None or the tokenizer the caller passed; `is_engine` is
\* isinstance(model_or_path, TensorRTForCausalLM).
pipeline(task, model_type, tokenizer, is_engine) ==
    IF model_type \notin DOMAIN SUPPORTED_MODEL_WITH_TASKS
    THEN PipelineOutcome("NotImplementedError", model_type, {}, "", <<>>)
    ELSE IF task \notin DOMAIN SUPPORTED_MODEL_WITH_TASKS[model_type]
    THEN PipelineOutcome("ValueError", task, {}, "", <<>>)
    ELSE
      LET target == SUPPORTED_MODEL_WITH_TASKS[model_type][task]
          pipeline_factory == target[1]
          model_factory == target[2]
          tokenized == IF tokenizer = None
                       THEN <<Effect("AutoTokenizer.from_pretrained", -1, "")>>
                       ELSE <<>>
          loaded == IF ~is_engine
                    THEN <<Effect("from_pretrained", -1, model_factory)>>
                    ELSE <<>>
      IN PipelineOutcome("none", "", {}, pipeline_factory,
                         tokenized \o loaded)

----------------------------------------------------------------------------
(* The inputs the calls are given. *)

Lengths == {None} \cup {Some(n) : n \in 0..(MaxPositionEmbeddings + 1)}

\* every generation profile within the bounds of the model
AllProfiles ==
    {<<b, p, n, o>> : b \in {0, 1, 2}, p \in Lengths, n \in Lengths,
                      o \in Lengths}

\* one profile validate() accepts and one it rejects
FewProfiles ==
    { <<1, Some(1), Some(1), None>>,
      <<0, Some(1), Some(1), None>> }

AllModes == SUBSET Flags
FewModes == {{}, {"FP8_QDQ"}}

Calibrations == {None, Some(EmptyCalibration), Some("dataset")}

\* the shardings Shard accepts: tp_degree * pp_degree = world_size, one node
Shardings ==
    {a \in (1..MaxWorldSize) \X (1..MaxWorldSize) \X (1..MaxWorldSize)
                \X (1..MaxWorldSize) :
        a[1] * a[2] = a[3] /\ a[4] = a[3]}

CalibrationFiles ==
    { FileName("config", ".json"), FileName("extra", ".json"),
      FileName("rank0", ".safetensors"), FileName("rank1", ".safetensors"),
      FileName("notes", ".txt") }

\* the entries a calibration directory can hold that the calibrator did not
\* write
StrayFiles == CalibrationFiles \ SavedCalibration

\* output_path is absent, or present with or without a calibration directory
Filesystems(listings) ==
    {[exists |-> FALSE, calibration |-> None, engines |-> {}]} \cup
    {[exists |-> TRUE, calibration |-> c, engines |-> {}] :
        c \in {None} \cup {Some(l) : l \in listings}}

ModelTypes == {"llama", "mistral", "gemma", "gpt2", "falcon"}
Tasks == {"text-generation", "summarization", "translation", "fill-mask"}

NoCall ==
    [op |-> "__init__", args |-> <<>>, raised |-> "none", names |-> "",
     listed |-> {}, ret |-> "", warned |-> FALSE, effects |-> <<>>]

----------------------------------------------------------------------------
(* The calls, as actions. *)

\* the call `op` with `args` had the outcome r
Called(op, args, r) ==
    /\ self' = r.self
    /\ fs' = r.fs
    /\ call' = [op |-> op, args |-> args, raised |-> r.raised,
                names |-> r.names, listed |-> {}, ret |-> r.ret,
                warned |-> r.warned, effects |-> r.effects]
    /\ UNCHANGED float8

\* another builder is constructed for the same model and output_path
Construct ==
    /\ Called("__init__", <<>>, Returns(NewBuilder, fs, "None", <<>>))

EnableParallelBuild ==
    \E num_jobs \in {-1, 2} :
        /\ Called("enable_parallel_build", <<num_jobs>>,
               enable_parallel_build(self, fs, num_jobs))

To ==
    \E dtype \in DTypes :
        /\ Called("to", <<dtype>>, to(self, fs, dtype))

ShardCall ==
    \E a \in Shardings :
        /\ Called("shard", a, shard(self, fs, a[1], a[2], a[3], a[4]))

WithQuantizationProfile(modes, calibrations) ==
    \E mode \in modes, calibration \in calibrations :
        /\ Called("with_quantization_profile", <<mode, calibration>>,
               with_quantization_profile(self, fs, mode, calibration))

WithGenerationProfile(profiles) ==
    \E a \in profiles :
        /\ Called("with_generation_profile", a,
               with_generation_profile(self, fs, a[1], a[2], a[3], a[4]))

WithSamplingStrategy ==
    \E num_beams \in {0, 2} :
        /\ Called("with_sampling_strategy", <<num_beams>>,
               with_sampling_strategy(self, fs, num_beams))

Validate == /\ Called("validate", <<>>, validate(self, fs))

Quantize == /\ Called("quantize", <<OutputPath>>, quantize(self, fs))

Build ==
    \E built \in SUBSET (0..(self._sharding_info.world_size - 1)) :
        /\ Called("build", <<OutputPath>>, build(self, fs, built, {0}))

PipelineCalled(op, args, r) ==
    /\ call' = [op |-> op, args |-> args, raised |-> r.raised,
                names |-> r.names, listed |-> r.listed, ret |-> r.ret,
                warned |-> FALSE, effects |-> r.effects]
    /\ UNCHANGED <<self, fs, float8>>

Pipeline ==
    \E task \in Tasks, model_type \in ModelTypes,
       tokenizer \in {None, Some("tokenizer")}, is_engine \in BOOLEAN :
        /\ PipelineCalled("pipeline",
                       <<task, model_type, tokenizer, is_engine>>,
                       pipeline(task, model_type, tokenizer, is_engine))

GetTargetClass ==
    \E task \in Tasks \cup ModelTypes \cup {""},
       architecture \in Tasks \cup ModelTypes :
        /\ PipelineCalled("get_target_class_for_model_and_task",
                       <<task, architecture>>,
                       get_target_class_for_model_and_task(task, architecture))

----------------------------------------------------------------------------
(* Specifications. *)

InitWith(listings) ==
    /\ self = NewBuilder
    /\ fs \in Filesystems(listings)
    /\ float8 \in BOOLEAN
    /\ call = NoCall

\* configuration, calibration and build of one builder, in its source dtype
Init == InitWith({SavedCalibration})
Next ==
    \/ EnableParallelBuild
    \/ ShardCall
    \/ WithQuantizationProfile(FewModes, Calibrations)
    \/ WithGenerationProfile(FewProfiles)
    \/ WithSamplingStrategy
    \/ Validate
    \/ Quantize
    \/ Build
Spec == Init /\ [][Next]_vars

\* every generation profile, validated
InitProfile ==
    /\ self = NewBuilder
    /\ fs = [exists |-> FALSE, calibration |-> None, engines |-> {}]
    /\ float8 = TRUE
    /\ call = NoCall
NextProfile ==
    \/ WithGenerationProfile(AllProfiles)
    \/ Validate
SpecProfile == InitProfile /\ [][NextProfile]_vars

\* every quantization mode and every state of the calibration directory
InitQuantize == InitWith(SUBSET CalibrationFiles)
NextQuantize ==
    \/ WithQuantizationProfile(AllModes, Calibrations)
    \/ WithGenerationProfile(FewProfiles)
    \/ Validate
    \/ Quantize
    \/ Build
SpecQuantize == InitQuantize /\ [][NextQuantize]_vars

\* engines built for every dtype and sharding into the same output_path
NextBuild ==
    \/ To
    \/ ShardCall
    \/ WithQuantizationProfile({{}}, {None})
    \/ WithGenerationProfile(FewProfiles)
    \/ Build
SpecBuild == InitProfile /\ [][NextBuild]_vars

\* builders that quantize into an output_path the calibrator has not written
\* to yet
InitCache == InitWith(SUBSET StrayFiles)
NextCache ==
    \/ Construct
    \/ WithQuantizationProfile(FewModes, Calibrations)
    \/ WithGenerationProfile(FewProfiles)
    \/ Quantize
    \/ Build
SpecCache == InitCache /\ [][NextCache]_vars

\* the configuration calls and the calibration step, without a build
NextConfig ==
    \/ EnableParallelBuild
    \/ To
    \/ ShardCall
    \/ WithQuantizationProfile(FewModes, Calibrations)
    \/ WithGenerationProfile(FewProfiles)
    \/ WithSamplingStrategy
    \/ Quantize
SpecConfig == Init /\ [][NextConfig]_vars

\* the pipeline factory
NextPipeline ==
    \/ Pipeline
    \/ GetTargetClass
SpecPipeline == InitProfile /\ [][NextPipeline]_vars

----------------------------------------------------------------------------
(* Properties. *)

HasEffect(effects, ev) == \E i \in DOMAIN effects : effects[i].ev = ev

\* the engine files a call wrote, in the order it wrote them
RECURSIVE EngineWrites(_)
EngineWrites(effects) ==
    IF effects = <<>> THEN <<>>
    ELSE IF Head(effects).ev = "_serialize_engine"
         THEN <<Head(effects).file>> \o EngineWrites(Tail(effects))
         ELSE EngineWrites(Tail(effects))

Range(seq) == {seq[i] : i \in DOMAIN seq}

\* C1: a build() that raises a value error has neither loaded the source
\* model nor run the calibrator.
C1_ConfigErrorAbortsBeforeDeviceWork ==
    (call.op = "build" /\ call.raised = "ValueError")
        => /\ ~HasEffect(call.effects, "from_pretrained")
           /\ ~HasEffect(call.effects, "calibrate")

\* the bounds of a profile as the specification states them
ViolatesBatchSize(p) == p.max_batch_size < 1
ViolatesPromptLength(p) ==
    /\ p.max_prompt_length # None
    /\ p.max_prompt_length[1] \notin 1..(MaxPositionEmbeddings - 1)
ViolatesNewTokens(p) ==
    /\ p.max_new_tokens # None
    /\ p.max_new_tokens[1] \notin 1..(MaxPositionEmbeddings - 1)
ViolatesOutputLength(p) ==
    /\ p.max_prompt_length # None
    /\ p.max_new_tokens # None
    /\ p.max_output_length # None
    /\ p.max_output_length[1] \notin
           (p.max_prompt_length[1] + p.max_new_tokens[1])..MaxPositionEmbeddings
ViolatesABound(p) ==
    \/ ViolatesBatchSize(p)
    \/ ViolatesPromptLength(p)
    \/ ViolatesNewTokens(p)
    \/ ViolatesOutputLength(p)
NamesAViolation(p, name) ==
    \/ name = "max_batch_size" /\ ViolatesBatchSize(p)
    \/ name = "max_prompt_length" /\ ViolatesPromptLength(p)
    \/ name = "max_new_tokens" /\ ViolatesNewTokens(p)
    \/ name = "max_output_length" /\ ViolatesOutputLength(p)

\* C2: validate() fails with a value error when no profile is set and when
\* the profile violates a bound, naming a field that violates its bound, and
\* never returns false.
C2_InvalidProfileRaisesValueError ==
    call.op = "validate" =>
        /\ call.ret # "False"
        /\ self._optimization_profile = None => call.raised = "ValueError"
        /\ (/\ self._optimization_profile # None
            /\ ViolatesABound(self._optimization_profile[1]))
               => /\ call.raised = "ValueError"
                  /\ NamesAViolation(self._optimization_profile[1], call.names)

\* the arguments of a with_generation_profile call that give a valid profile
\* and leave max_output_length out
ValidWithoutOutputLength(a) ==
    /\ a[1] >= 1
    /\ a[2] # None /\ a[2][1] \in 1..(MaxPositionEmbeddings - 1)
    /\ a[3] # None /\ a[3][1] \in 1..(MaxPositionEmbeddings - 1)
    /\ a[2][1] + a[3][1] <= MaxPositionEmbeddings
    /\ a[4] = None

\* C3: a valid profile set without max_output_length is stored with
\* max_output_length = max_prompt_length + max_new_tokens, and the validate()
\* that follows returns true.
C3_ValidProfileValidates ==
    [][ /\ (/\ call'.op = "with_generation_profile"
            /\ ValidWithoutOutputLength(call'.args))
               => self'._optimization_profile =
                      Some(OptimizationProfile(
                               call'.args[1], call'.args[2], call'.args[3],
                               Some(call'.args[2][1] + call'.args[3][1])))
        /\ (/\ call.op = "with_generation_profile"
            /\ ValidWithoutOutputLength(call.args)
            /\ call'.op = "validate")
               => /\ call'.raised = "none"
                  /\ call'.ret = "True"
                  /\ self'._optimization_profile = self._optimization_profile
      ]_vars

\* C3 witness: validate() returned true for a profile whose lengths add up
\* to the model's limit and whose max_output_length is their sum
C3_Witness ==
    /\ call.op = "validate"
    /\ call.ret = "True"
    /\ self._optimization_profile # None
    /\ LET p == self._optimization_profile[1] IN
        /\ p.max_prompt_length[1] + p.max_new_tokens[1] = MaxPositionEmbeddings
        /\ p.max_output_length = Some(MaxPositionEmbeddings)
        /\ p.max_batch_size = 2

\* a stored profile with both lengths in range, their sum above the limit
\* and max_output_length defaulted to that sum
SumAboveLimit(profile) ==
    /\ profile # None
    /\ profile[1].max_batch_size >= 1
    /\ profile[1].max_prompt_length # None
    /\ profile[1].max_new_tokens # None
    /\ profile[1].max_prompt_length[1] \in 1..(MaxPositionEmbeddings - 1)
    /\ profile[1].max_new_tokens[1] \in 1..(MaxPositionEmbeddings - 1)
    /\ profile[1].max_prompt_length[1] + profile[1].max_new_tokens[1]
           > MaxPositionEmbeddings
    /\ profile[1].max_output_length =
           Some(profile[1].max_prompt_length[1] + profile[1].max_new_tokens[1])

\* C4: with both lengths in range and their sum above the limit, validate()
\* does not fail: it warns and max_new_tokens becomes the limit minus
\* max_prompt_length.
C4_SumAboveLimitTruncates ==
    [][ (call'.op = "validate" /\ SumAboveLimit(self._optimization_profile))
            => /\ call'.raised = "none"
               /\ call'.warned
               /\ self'._optimization_profile[1].max_new_tokens =
                      Some(MaxPositionEmbeddings
                           - self._optimization_profile[1].max_prompt_length[1])
      ]_vars

\* C5: with_quantization_profile(mode, calibration) with an fp8 mode on
\* hardware without float8 raises UnsupportedHardwareFeature, loads nothing
\* and leaves the builder as it was; in every other case it stores the mode
\* and the calibration it was given.
C5_Float8NeedsHardware ==
    [][ call'.op = "with_quantization_profile" =>
          LET mode == call'.args[1]
              calibration == call'.args[2]
          IN
          IF ("FP8_QDQ" \in mode \/ "FP8_KV_CACHE" \in mode) /\ ~float8
          THEN /\ call'.raised = "UnsupportedHardwareFeature"
               /\ call'.effects = <<>>
               /\ self' = self
               /\ fs' = fs
          ELSE /\ call'.raised = "none"
               /\ self'._qconfig = QuantMode(mode)
               /\ self'._quantization_calibration = calibration
               /\ self' = [self EXCEPT !._qconfig = QuantMode(mode),
                                       !._quantization_calibration = calibration]
      ]_vars

\* C5 witness: an fp8 KV-cache mode was refused on a builder that keeps the
\* mode and calibration stored before
C5_Witness ==
    /\ call.op = "with_quantization_profile"
    /\ call.args[1] = {"FP8_KV_CACHE"}
    /\ call.raised = "UnsupportedHardwareFeature"
    /\ self._qconfig = QuantMode({"INT8_WEIGHTS"})
    /\ self._quantization_calibration = Some("dataset")

\* a calibration directory holding one .json file, one .safetensors file
\* and nothing else
OneJsonOneSafetensors(calibration_path) ==
    /\ calibration_path # None
    /\ \E j, w \in calibration_path[1] :
        /\ j[2] = ".json"
        /\ w[2] = ".safetensors"
        /\ calibration_path[1] = {j, w}

\* C6: with a calibration dataset (a calibration that is set and not
\* empty, as quantize tests it), quantize(output_path) reuses the
\* calibration directory exactly when it holds one .json file and one
\* .safetensors file and nothing else; otherwise it loads the model,
\* calibrates and saves.
C6_CalibrationCache ==
    [][ (/\ call'.op = "quantize"
         /\ TruthyCalibration(self._quantization_calibration)) =>
          /\ call'.raised = "none"
          /\ IF OneJsonOneSafetensors(fs.calibration)
             THEN /\ ~HasEffect(call'.effects, "from_pretrained")
                  /\ ~HasEffect(call'.effects, "calibrate")
                  /\ fs' = fs
             ELSE /\ HasEffect(call'.effects, "from_pretrained")
                  /\ HasEffect(call'.effects, "calibrate")
                  /\ HasEffect(call'.effects, "save")
      ]_vars

\* C6 witness: quantize recomputed over a directory that holds a .json and a
\* .safetensors file among three
C6_Witness ==
    /\ call.op = "quantize"
    /\ HasEffect(call.effects, "calibrate")
    /\ fs.calibration # None
    /\ FileName("notes", ".txt") \in fs.calibration[1]
    /\ Cardinality(fs.calibration[1]) = 3

\* the builder enable_parallel_build(num_jobs) is documented to leave
ParallelBuilder(s, num_jobs) ==
    [s EXCEPT !._build_info =
         BuildInfo(TRUE, num_jobs, s._build_info.quantized_path)]

\* C7: enable_parallel_build(num_jobs > 1) selects the parallel path, and
\* for the configuration of a completed serial build the parallel build
\* completes too and writes the same engine files.
C7_SerialParallelSameEngines ==
    /\ (call.op = "enable_parallel_build" /\ call.args[1] > 1)
           => /\ call.raised = "none"
              /\ DispatchesParallel(self)
    /\ (call.op = "build" /\ call.raised = "none")
           => LET ranks == 0..(self._sharding_info.world_size - 1)
                  parallel == build(ParallelBuilder(self, 2), fs, ranks, {0})
              IN /\ parallel.raised = "none"
                 /\ Range(EngineWrites(parallel.effects))
                        = Range(EngineWrites(call.effects))

\* C8: pipeline resolution fails with "not implemented" for an unsupported
\* model type and for a task unsupported for the model type, listing in the
\* second case the tasks the model type supports; a registered pair resolves
\* to the registered pipeline and loader (the loader is called unless
\* model_or_path already is an engine).
C8_ResolutionErrors ==
    call.op = "pipeline" =>
        LET task == call.args[1]
            model_type == call.args[2]
        IN
        IF model_type \notin DOMAIN SUPPORTED_MODEL_WITH_TASKS
        THEN call.raised = "NotImplementedError"
        ELSE IF task \notin DOMAIN SUPPORTED_MODEL_WITH_TASKS[model_type]
        THEN /\ call.raised = "NotImplementedError"
             /\ call.listed = DOMAIN SUPPORTED_MODEL_WITH_TASKS[model_type]
        ELSE /\ call.raised = "none"
             /\ call.ret = SUPPORTED_MODEL_WITH_TASKS[model_type][task][1]
             /\ ~call.args[4] =>
                    \E i \in DOMAIN call.effects :
                        /\ call.effects[i].ev = "from_pretrained"
                        /\ call.effects[i].file =
                               SUPPORTED_MODEL_WITH_TASKS[model_type][task][2]

\* {model_type}_{dtype}_tp{T}_rank{R}.engine
EngineFileName(model_type, dtype, T, R) ==
    model_type \o "_" \o dtype \o "_tp" \o ToString(T) \o "_rank"
        \o ToString(R) \o ".engine"

\* the engine files of the builder's dtype and sharding, by rank
ExpectedEngines ==
    [i \in 1..self._sharding_info.world_size |->
        EngineFileName(ModelType, self._dtype, self._sharding_info.tp_degree,
                       i - 1)]

\* C9 as stated: after a successful serial build, output_path holds exactly
\* the world_size engine files of the builder's ranks.
C9_ExactlyTheEngineFiles ==
    (call.op = "build" /\ call.raised = "none") =>
        /\ fs.engines = Range(ExpectedEngines)
        /\ Cardinality(fs.engines) = self._sharding_info.world_size
        /\ EngineWrites(call.effects) = ExpectedEngines
        /\ call.ret = OutputPath

\* C9 as amended: a successful serial build writes exactly world_size engine
\* files, one per rank in increasing rank order, each named after the rank,
\* no two alike, and output_path holds them among the engine files it held
\* before; build() returns output_path.
C9_EngineFilePerRank ==
    (call.op = "build" /\ call.raised = "none") =>
        /\ EngineWrites(call.effects) = ExpectedEngines
        /\ Cardinality(Range(EngineWrites(call.effects)))
               = self._sharding_info.world_size
        /\ Range(ExpectedEngines) \subseteq fs.engines
        /\ call.ret = OutputPath

\* C9 witness: a build over two shards completed into a directory that holds
\* engine files of another dtype
C9_Witness ==
    /\ call.op = "build"
    /\ call.raised = "none"
    /\ self._sharding_info.world_size = 2
    /\ Len(EngineWrites(call.effects)) = 2
    /\ self._dtype = "bfloat16"
    /\ EngineFileName(ModelType, "float16", 1, 0) \in fs.engines

\* C10: build() on a builder whose quantization was only defaulted by
\* validate() neither runs quantize nor sets BuildInfo.quantized_path.
C10_NoQuantizeWithoutProfile ==
    (call.op = "build" /\ self._qconfig.kind = "tuple") =>
        ~HasEffect(call.effects, "quantize")

\* calibration artifacts exist at output_path/calibration: the directory is
\* there and holds a config file and a weights file
CalibrationArtifacts(f) ==
    /\ f.calibration # None
    /\ \E x \in f.calibration[1] : x[2] = ".json"
    /\ \E x \in f.calibration[1] : x[2] = ".safetensors"

\* C11: while building a shard the model is loaded from the quantized
\* checkpoint only if fp8 was requested and calibration artifacts exist at
\* BuildInfo.quantized_path; in every other case, fp8 requested without a
\* calibration dataset included, it is loaded from the source weights.
C11_CheckpointOnlyWithArtifacts ==
    call.op = "build" =>
        \A i \in DOMAIN call.effects :
            LET fp8 == self._qconfig.kind = "QuantMode"
                           /\ "FP8_QDQ" \in self._qconfig.mode
                quantized == /\ fp8
                             /\ self._build_info.quantized_path # None
                             /\ CalibrationArtifacts(fs)
            IN /\ call.effects[i].ev = "from_checkpoint" => quantized
               /\ call.effects[i].ev = "from_hugging_face" => ~quantized

\* the calibrator has run and saved its config file and its weights file
\* under this output_path
CalibratorSaved(f) ==
    /\ f.calibration # None
    /\ SavedCalibration \subseteq f.calibration[1]

Calibrates(effects) ==
    HasEffect(effects, "from_pretrained") \/ HasEffect(effects, "calibrate")

\* C12 as stated: once a quantize with a calibration dataset has run the
\* calibrator and saved its config file and its weights file, no later call
\* on the same output_path, from this or another builder, loads the model or
\* calibrates again, and every later quantize with a dataset reuses the cache.
C12_CalibratesOncePerOutputPath ==
    [][ CalibratorSaved(fs) =>
          /\ ~Calibrates(call'.effects)
          /\ (/\ call'.op = "quantize"
              /\ TruthyCalibration(self._quantization_calibration))
                 => HasEffect(call'.effects, "reuse")
      ]_vars

\* C12 as amended: a quantize that calibrates over an absent or empty
\* calibration directory leaves it holding the calibrator's one config file
\* and one weights file, and once the directory holds exactly one config
\* file and one weights file no later call on the same output_path, from
\* this or another builder, loads the model, calibrates or changes the
\* directory: a quantize with a dataset reuses it.
C12_WellFormedCacheIsReused ==
    [][ /\ (/\ HasEffect(call'.effects, "save")
            /\ (fs.calibration = None \/ fs.calibration = Some({})))
               => fs'.calibration = Some(SavedCalibration)
        /\ OneJsonOneSafetensors(fs.calibration) =>
              /\ ~Calibrates(call'.effects)
              /\ fs'.calibration = fs.calibration
              /\ (/\ TruthyCalibration(self._quantization_calibration)
                  /\ HasEffect(call'.effects, "quantize"))
                     => HasEffect(call'.effects, "reuse")
      ]_vars

\* C12 witness: a quantize with a dataset reused the two files an earlier
\* quantize had calibrated and saved
C12_Witness ==
    /\ call.op = "quantize"
    /\ HasEffect(call.effects, "reuse")
    /\ fs.calibration = Some(SavedCalibration)
    /\ TruthyCalibration(self._quantization_calibration)
    /\ self._qconfig = QuantMode({})

\* how many of the effects are the event ev for the given rank
Count(effects, ev, rank) ==
    Cardinality({i \in DOMAIN effects :
                    effects[i].ev = ev /\ effects[i].rank = rank})

\* the pool size the specification gives: the job count, or the CPU affinity
\* count when the job count is <= 1, capped at the number of shards
PoolSize(num_jobs, affinity, shards) ==
    LET wanted == IF num_jobs > 1 THEN num_jobs ELSE Cardinality(affinity)
    IN IF wanted > shards THEN shards ELSE wanted

\* C13: in parallel mode the worker pool has the configured job count, or
\* the CPU affinity count when the job count is <= 1, capped at the number
\* of shards, and exactly one build task is dispatched per shard.  Stated
\* for the configuration of every completed serial build, switched to
\* parallel mode.
C13_PoolSizedOneTaskPerShard ==
    (call.op = "build" /\ call.raised = "none") =>
        \A num_jobs \in {-1, 2, 3} :
            LET shards == self._sharding_info.world_size
                ranks == 0..(shards - 1)
                affinity == {0, 1}
                parallel == build(ParallelBuilder(self, num_jobs), fs, ranks,
                                  affinity)
            IN /\ parallel.raised = "none"
               /\ Count(parallel.effects, "Pool",
                        PoolSize(num_jobs, affinity, shards)) = 1
               /\ \A rank \in ranks :
                      Count(parallel.effects, "build_engine", rank) = 1

\* the three files rank 0 writes beside its engine
MetadataWrites == {"save_hf_config", "save_timing_cache", "save_config"}

\* the ranks whose shard the call ran the external builder for
RanksBuilt(effects) ==
    {effects[i].rank : i \in {j \in DOMAIN effects :
                                  effects[j].ev = "build_engine"}}

\* the shard wrote its engine file
EngineWritten(effects, rank) == Count(effects, "_serialize_engine", rank) = 1

\* C14: in a build over N shards the HuggingFace config, the timing cache
\* and the builder configuration are each written at most once, by rank 0
\* only and only when rank 0's engine was produced, and exactly once when the
\* build completes; a shard for which the external builder returns no engine
\* raises a runtime error and has written neither engine file nor metadata.
C14_MetadataOnceForBuiltRankZero ==
    call.op = "build" =>
        /\ \A ev \in MetadataWrites :
              /\ \A rank \in RanksBuilt(call.effects) \ {0} :
                     Count(call.effects, ev, rank) = 0
              /\ Count(call.effects, ev, 0)
                     = (IF EngineWritten(call.effects, 0) THEN 1 ELSE 0)
              /\ call.raised = "none" => Count(call.effects, ev, 0) = 1
        /\ call.raised = "RuntimeError" =>
              \E rank \in RanksBuilt(call.effects) :
                  /\ ~EngineWritten(call.effects, rank)
                  /\ \A ev \in MetadataWrites :
                         Count(call.effects, ev, rank) = 0

\* the builder's fields other than BuildInfo are the same in s and t
SameButBuildInfo(s, t) ==
    t = [s EXCEPT !._build_info = t._build_info]

\* C15: BuildInfo is changed only by enable_parallel_build and by quantize.
\* enable_parallel_build(n) succeeds on any builder and leaves parallel =
\* true and num_parallel_jobs = n; quantize changes only quantized_path;
\* neither changes another field of the builder; to, shard,
\* with_generation_profile, with_sampling_strategy and
\* with_quantization_profile leave BuildInfo as it was.
C15_BuildInfoFrame ==
    [][ /\ call'.op = "enable_parallel_build" =>
              /\ call'.raised = "none"
              /\ self'._build_info.parallel
              /\ self'._build_info.num_parallel_jobs = call'.args[1]
              /\ SameButBuildInfo(self, self')
        /\ call'.op = "quantize" =>
              /\ self'._build_info.parallel = self._build_info.parallel
              /\ self'._build_info.num_parallel_jobs
                     = self._build_info.num_parallel_jobs
              /\ SameButBuildInfo(self, self')
        /\ call'.op \in {"to", "shard", "with_generation_profile",
                         "with_sampling_strategy", "with_quantization_profile"}
              => self'._build_info = self._build_info
      ]_vars

====
